---- MODULE Spec2Model ----
(***************************************************************************)
(* News aggregator backend (FastAPI + SQLAlchemy AsyncSession on SQLite):  *)
(* the request handlers of app/routers and the identity resolver of        *)
(* app/auth/dependencies.py, as concurrent requests over one database.     *)
(*                                                                         *)
(* A request is a coroutine; every `await` on the database is one atomic   *)
(* step, and steps of different requests interleave freely.  The engine is *)
(* created with connect_args={"check_same_thread": False}                  *)
(* (database.py:12-17), which only the sqlite drivers accept, and no       *)
(* PRAGMA foreign_keys is issued, so:                                      *)
(*   - a SELECT reads the committed state at the moment it runs (the       *)
(*     driver opens a transaction only for INSERT/UPDATE/DELETE);          *)
(*   - commit() flushes the session's pending work and commits it as one   *)
(*     atomic write;                                                       *)
(*   - UNIQUE constraints are enforced, FOREIGN KEY clauses are not;       *)
(*   - an INTEGER PRIMARY KEY without AUTOINCREMENT gets max(id)+1.        *)
(*                                                                         *)
(* A request's inputs (credentials, path id, body fields) are fixed by the *)
(* client before the handler runs; the model draws each at the step that   *)
(* first reads it, which gives the same behaviours with fewer states.      *)
(***************************************************************************)
EXTENDS Integers, FiniteSets, Sequences, TLC

\* ------------------------------------------------------------------ bounds
\* Concurrent requests in flight.
MaxReq == 2
\* Requests started in one behaviour.
MaxOps == 3
\* Resource ids a request may name in its path or body.
MaxId == 2

\* ----------------------------------------------------------- input domains
Reqs == 1..MaxReq
ArgIds == 1..MaxId
Unset == "unset"
NoId == 0
Urls == {"u1", "u2"}
Names == {"n1"}
Titles == {"t1", "t2"}
ADMIN_USERNAME == "admin"
ADMIN_EMAIL == "admin@x"
ADMIN_PASSWORD == "adminpw"
Usernames == {ADMIN_USERNAME, "bob"}
Emails == {ADMIN_EMAIL, "bob@x"}
RegPasswords == {"bobpw"}
Passwords == {ADMIN_PASSWORD, "bobpw"}

SourceGated == {"update_source", "delete_source"}
ArticleGated == {"update_article", "delete_article"}
Mutating == {"create_source", "create_article"} \cup SourceGated \cup ArticleGated

VARIABLES users, sources, articles, tokens, req, started

vars == <<users, sources, articles, tokens, req, started>>
db == <<users, sources, articles>>

\* ----------------------------------------------------------------- storage
SetMax(S) == CHOOSE x \in S : \A y \in S : y <= x

\* INTEGER PRIMARY KEY rowid allocation of SQLite: one more than the largest.
NextId(rows) == IF rows = {} THEN 1 ELSE SetMax({r.id : r \in rows}) + 1

\* app.auth.security is not among the sources: a salted one-way hash keeps
\* the plaintext only as what verify compares against.
get_password_hash(p) == [alg |-> "bcrypt", of |-> p]
verify_password(p, h) == h.alg = "bcrypt" /\ h.of = p

\* The claims create_access_token signs: the data it is given plus an expiry.
create_access_token(data) == [user_id |-> data.user_id, role |-> data.role]

NoUser == [id |-> NoId, username |-> Unset, email |-> Unset,
           password |-> get_password_hash(Unset), role |-> Unset]
NoSource == [id |-> NoId, url |-> Unset, name |-> Unset, author_id |-> NoId]
NoArticle == [id |-> NoId, title |-> Unset, source_id |-> NoId, author_id |-> NoId]

\* uq_users_username, uq_users_email and the primary key.
UsersUnique(U) ==
    \A a, b \in U : (a.id = b.id \/ a.username = b.username \/ a.email = b.email)
                      => a = b
\* uq_sources_url and the primary key.
SourcesUnique(S) ==
    \A a, b \in S : (a.id = b.id \/ a.url = b.url) => a = b

\* ---------------------------------------------------------------- requests
NoArg == [id |-> NoId, source_id |-> NoId, url |-> Unset, name |-> Unset,
          title |-> Unset, username |-> Unset, email |-> Unset,
          password |-> Unset]
NoCred == [kind |-> "none", user_id |-> NoId, role |-> Unset]
Idle == [op |-> "idle", pc |-> "idle", cred |-> NoCred, arg |-> NoArg,
         user |-> NoUser, src |-> NoSource, art |-> NoArticle, kids |-> {},
         status |-> 0, detail |-> "", wrote |-> FALSE]

\* What a client can put in the Authorization header: nothing, or a bearer
\* token that is garbage, signed with another key, expired, or one of the
\* tokens signed with SECRET_KEY that are still within their lifetime.
Credentials ==
    {[kind |-> k, user_id |-> NoId, role |-> Unset] :
        k \in {"missing", "malformed", "badsig", "expired"}}
    \cup {[kind |-> "signed", user_id |-> t.user_id, role |-> t.role] : t \in tokens}

Finish(r, st, det) ==
    [req EXCEPT ![r].pc = "done", ![r].status = st, ![r].detail = det]

\* ------------------------------------------------------------- app startup
\* create_admin_user: insert the administrator unless a user with
\* ADMIN_EMAIL is already stored.
create_admin_user(U) ==
    IF \E u \in U : u.email = ADMIN_EMAIL
    THEN U
    ELSE U \cup {[id |-> NextId(U), username |-> ADMIN_USERNAME,
                  email |-> ADMIN_EMAIL,
                  password |-> get_password_hash(ADMIN_PASSWORD),
                  role |-> "admin"]}

\* Tokens signed with SECRET_KEY before this start of the process and not yet
\* expired: the secret and the token lifetime outlive a restart and a
\* change of database.  One belongs to the administrator, one names a user
\* id and a role of an earlier database, two lack a required claim.
OutstandingTokens ==
    {[user_id |-> 1, role |-> "admin"], [user_id |-> 2, role |-> "admin"],
     [user_id |-> NoId, role |-> "user"], [user_id |-> 1, role |-> Unset]}

Init ==
    /\ users = create_admin_user({})
    /\ sources = {}
    /\ articles = {}
    /\ tokens = OutstandingTokens
    /\ req = [r \in Reqs |-> Idle]
    /\ started = 0

\* ------------------------------------------------------ request admission
\* A request arrives; requests are interchangeable, so the lowest free one
\* takes it.
Arrive(r, op, pc) ==
    /\ req[r].op = "idle"
    /\ \A q \in Reqs : q < r => req[q].op # "idle"
    /\ started < MaxOps
    /\ started' = started + 1
    /\ req' = [req EXCEPT ![r] = [Idle EXCEPT !.op = op, !.pc = pc]]
    /\ UNCHANGED <<users, sources, articles, tokens>>

\* ------------------------------------------------------- identity resolver
\* security_scheme = HTTPBearer(auto_error=True) answers a request without
\* bearer credentials itself, before get_current_user runs, with the
\* framework's own "Not authenticated"; its status is 403 or 401 depending
\* on the FastAPI release.
BearerStatuses == {401, 403}

\* require_role(role): the dependency that admits only a principal whose
\* role is exactly `role` (no endpoint of the routers uses it).
require_role(role, current_user) ==
    IF current_user.role # role THEN 403 ELSE 200

\* jwt.decode(token, SECRET_KEY, algorithms=[ALGORITHM]) raises JWTError for
\* a malformed token, a bad signature and an expired token.
jwt_decode_ok(cred) == cred.kind = "signed"

get_current_user_TokenRole(cred, U) ==
    IF cred.kind # "signed" \/ cred.user_id = NoId \/ cred.role = Unset
       \/ ~\E u \in U : u.id = cred.user_id
    THEN [ok |-> FALSE, user |-> NoUser, status |-> 401,
          detail |-> "token invalid or missing"]
    ELSE [ok |-> TRUE,
          user |-> [(CHOOSE u \in U : u.id = cred.user_id) EXCEPT !.role = cred.role],
          status |-> 0, detail |-> ""]

\* get_current_user after the bearer scheme: [ok, user, status, detail].
get_current_user(cred, U) ==
    LET credentials_exception ==
            [ok |-> FALSE, user |-> NoUser, status |-> 401,
             detail |-> "token invalid or missing"]
    IN  IF ~jwt_decode_ok(cred) THEN credentials_exception
        ELSE IF cred.user_id = NoId \/ cred.role = Unset THEN credentials_exception
        ELSE IF ~\E u \in U : u.id = cred.user_id THEN credentials_exception
        ELSE [ok |-> TRUE, user |-> CHOOSE u \in U : u.id = cred.user_id,
              status |-> 0, detail |-> ""]

FirstStage(op) ==
    CASE op = "create_source" -> "cs_check"
      [] op = "update_source" -> "us_load"
      [] op = "delete_source" -> "ds_load"
      [] op = "create_article" -> "ca_check"
      [] op = "update_article" -> "ua_load"
      [] op = "delete_article" -> "da_load"
      [] OTHER -> "return"

\* Depends(security_scheme) and Depends(get_current_user) of an endpoint
\* that needs a principal; read_users_me returns the principal at once.
Authenticate(r) ==
    /\ req[r].pc = "auth"
    /\ \E cred \in Credentials :
        IF cred.kind = "missing"
        THEN \E st \in BearerStatuses :
                req' = [Finish(r, st, "Not authenticated") EXCEPT ![r].cred = cred]
        ELSE LET res == get_current_user(cred, users)
             IN  IF ~res.ok
                 THEN req' = [Finish(r, res.status, res.detail) EXCEPT ![r].cred = cred]
                 ELSE IF req[r].op = "me"
                 THEN req' = [Finish(r, 200, "") EXCEPT ![r].cred = cred,
                                                        ![r].user = res.user]
                 ELSE req' = [req EXCEPT ![r].cred = cred, ![r].user = res.user,
                                         ![r].pc = FirstStage(req[r].op)]
    /\ UNCHANGED <<users, sources, articles, tokens, started>>

read_users_me(r) == Arrive(r, "me", "auth")

\* ------------------------------------------------------------ auth router
register_user(r) == Arrive(r, "register", "reg_email")

register_email_exists(r) ==
    /\ req[r].pc = "reg_email"
    /\ \E e \in Emails :
        LET q == [req EXCEPT ![r].arg.email = e]
        IN  IF \E u \in users : u.email = e
            THEN req' = [q EXCEPT ![r].pc = "done", ![r].status = 422,
                                  ![r].detail = "email exists"]
            ELSE req' = [q EXCEPT ![r].pc = "reg_username"]
    /\ UNCHANGED <<users, sources, articles, tokens, started>>

register_username_exists(r) ==
    /\ req[r].pc = "reg_username"
    /\ \E n \in Usernames :
        LET q == [req EXCEPT ![r].arg.username = n]
        IN  IF \E u \in users : u.username = n
            THEN req' = [q EXCEPT ![r].pc = "done", ![r].status = 422,
                                  ![r].detail = "username exists"]
            ELSE req' = [q EXCEPT ![r].pc = "reg_commit"]
    /\ UNCHANGED <<users, sources, articles, tokens, started>>

RegisteredRole_Admin(arg) == "admin"

\* The role a registration stores.
RegisteredRole(arg) == "user"

\* db.add(new_user); commit(); refresh(new_user).  The INSERT fails on
\* uq_users_username / uq_users_email with an IntegrityError nothing catches.
\* No operation deletes a user, so the refresh finds the row.
register_commit(r) ==
    /\ req[r].pc = "reg_commit"
    /\ \E p \in RegPasswords :
       LET new_user == [id |-> NextId(users),
                        username |-> req[r].arg.username,
                        email |-> req[r].arg.email,
                        password |-> get_password_hash(p),
                        role |-> RegisteredRole(req[r].arg)]
       IN  IF UsersUnique(users \cup {new_user})
           THEN /\ users' = users \cup {new_user}
                /\ req' = [Finish(r, 200, "") EXCEPT ![r].user = new_user,
                                                      ![r].wrote = TRUE]
           ELSE /\ users' = users
                /\ req' = Finish(r, 500, "IntegrityError")
    /\ UNCHANGED <<sources, articles, tokens, started>>

\* login_for_access_token has one await: the SELECT by email.
login_for_access_token(r) ==
    /\ req[r].pc = "login"
    /\ \E e \in Emails, p \in Passwords :
       LET found == {u \in users : u.email = e}
       IN  IF found = {} \/ \E u \in found : ~verify_password(p, u.password)
           THEN /\ req' = Finish(r, 401, "wrong email or password")
                /\ tokens' = tokens
           ELSE LET user == CHOOSE u \in found : TRUE
                IN  /\ tokens' = tokens \cup
                           {create_access_token([user_id |-> user.id, role |-> user.role])}
                    /\ req' = [Finish(r, 200, "") EXCEPT ![r].user = user]
    /\ UNCHANGED <<users, sources, articles, started>>

login(r) == Arrive(r, "login", "login")

\* ---------------------------------------------------------- ownership gate
\* is_admin = current_user.role == "admin"; is_author = resource.author_id ==
\* current_user.id; the request is refused when neither holds.  The same
\* three lines stand in update_source, delete_source, update_article and
\* delete_article.
OwnerOrAdmin_AdminOnly(current_user, author_id) ==
    current_user.role = "admin"

OwnerOrAdmin(current_user, author_id) ==
    LET is_admin == current_user.role = "admin"
        is_author == author_id = current_user.id
    IN  ~(~is_admin /\ ~is_author)

\* ---------------------------------------------------------- sources router
create_source(r) ==
    /\ Cardinality(sources) < MaxId
    /\ Arrive(r, "create_source", "auth")

create_source_check(r) ==
    /\ req[r].pc = "cs_check"
    /\ \E u \in Urls :
        LET q == [req EXCEPT ![r].arg.url = u]
        IN  IF \E s \in sources : s.url = u
            THEN req' = [q EXCEPT ![r].pc = "done", ![r].status = 422,
                                  ![r].detail = "url exists"]
            ELSE req' = [q EXCEPT ![r].pc = "cs_commit"]
    /\ UNCHANGED <<users, sources, articles, tokens, started>>

SourcesAccepted_NoUrlConstraint(S) ==
    \A a, b \in S : a.id = b.id => a = b

\* The rows of sources a flush may leave: uq_sources_url is enforced.
SourcesAccepted(S) == SourcesUnique(S)

create_source_commit(r) ==
    /\ req[r].pc = "cs_commit"
    /\ \E n \in Names :
       LET new_source == [id |-> NextId(sources), url |-> req[r].arg.url,
                          name |-> n,
                          author_id |-> req[r].user.id]
       IN  IF SourcesAccepted(sources \cup {new_source})
           THEN /\ sources' = sources \cup {new_source}
                /\ req' = [req EXCEPT ![r].pc = "cs_refresh", ![r].wrote = TRUE,
                                        ![r].src = new_source]
           ELSE /\ sources' = sources
                /\ req' = Finish(r, 500, "IntegrityError")
    /\ UNCHANGED <<users, articles, tokens, started>>

\* db.refresh(obj): a SELECT by primary key that raises when no row is left.
refresh_source(r, pc, st) ==
    /\ req[r].pc = pc
    /\ LET rows == {s \in sources : s.id = req[r].src.id}
       IN  IF rows = {}
           THEN req' = Finish(r, 500, "InvalidRequestError")
           ELSE req' = Finish(r, st, "")
    /\ UNCHANGED <<users, sources, articles, tokens, started>>

create_source_refresh(r) == refresh_source(r, "cs_refresh", 201)

load_source_DeleteBeforeGate(r, pc, next) ==
    /\ req[r].pc = pc
    /\ \E i \in ArgIds :
       LET rows == {s \in sources : s.id = i}
           q == [req EXCEPT ![r].arg.id = i]
       IN  IF rows = {}
           THEN /\ sources' = sources
                /\ req' = [q EXCEPT ![r].pc = "done", ![r].status = 404,
                                      ![r].detail = "source not found"]
           ELSE LET source == CHOOSE s \in rows : TRUE
                IN  IF ~OwnerOrAdmin(req[r].user, source.author_id)
                    THEN /\ sources' = sources \ {source}
                         /\ req' = [q EXCEPT ![r].pc = "done", ![r].status = 403,
                                               ![r].detail = "only admin or author",
                                               ![r].src = source]
                    ELSE /\ sources' = sources
                         /\ req' = [q EXCEPT ![r].src = source, ![r].pc = next]
    /\ UNCHANGED <<users, articles, tokens, started>>

\* The SELECT by id, the 404 and the ownership gate of update_source and
\* delete_source.
load_source(r, pc, next) ==
    /\ req[r].pc = pc
    /\ \E i \in ArgIds :
       LET rows == {s \in sources : s.id = i}
           q == [req EXCEPT ![r].arg.id = i]
       IN  IF rows = {}
           THEN req' = [q EXCEPT ![r].pc = "done", ![r].status = 404,
                                 ![r].detail = "source not found"]
           ELSE LET source == CHOOSE s \in rows : TRUE
                IN  IF ~OwnerOrAdmin(req[r].user, source.author_id)
                    THEN req' = [q EXCEPT ![r].pc = "done", ![r].status = 403,
                                          ![r].detail = "only admin or author",
                                          ![r].src = source]
                    ELSE req' = [q EXCEPT ![r].src = source, ![r].pc = next]
    /\ UNCHANGED <<users, sources, articles, tokens, started>>

update_source(r) == Arrive(r, "update_source", "auth")

update_source_load(r) == load_source(r, "us_load", "us_commit")

\* The value a request body field has when the body leaves it out.
Absent(k) == IF k \in {"id", "source_id", "author_id"} THEN NoId ELSE Unset

\* The fields exclude_unset keeps: those the validated body carries.
model_dump(model) == {k \in DOMAIN model : model[k] # Absent(k)}

\* A SourceUpdate that lets the body's author_id through.
SourceUpdate_WithAuthor(body) == body

\* SourceUpdate validation: name and url are the fields the schema declares
\* (description is not modelled); any other field of the body is dropped.
SourceUpdate(body) == [k \in {"name", "url"} |-> body[k]]

\* setattr(source, key, value) for the fields the body sets: the columns
\* whose value differs from the loaded one are the ones the flush writes.
SourceChanges(update_data, source) ==
    {k \in model_dump(update_data) : update_data[k] # source[k]}

\* The row an UPDATE of the changed columns leaves.
Updated(row, update_data, changed) ==
    [k \in DOMAIN row |-> IF k \in changed THEN update_data[k] ELSE row[k]]

\* commit() after the setattr loop: UPDATE sources SET <changed> WHERE id =
\* :id.  No row matched raises StaleDataError, a taken url IntegrityError;
\* without a changed column nothing is written.
update_source_commit(r) ==
    /\ req[r].pc = "us_commit"
    /\ \E u \in Urls \cup {Unset}, n \in Names \cup {Unset},
          au \in ArgIds \cup {NoId} :
       LET update_data == SourceUpdate([url |-> u, name |-> n, author_id |-> au])
           q == [req EXCEPT ![r].arg.url = u, ![r].arg.name = n]
           ch == SourceChanges(update_data, req[r].src)
           rows == {s \in sources : s.id = req[r].src.id}
       IN  IF ch = {}
           THEN /\ sources' = sources
                /\ req' = [q EXCEPT ![r].pc = "us_refresh"]
           ELSE IF rows = {}
           THEN /\ sources' = sources
                /\ req' = [q EXCEPT ![r].pc = "done", ![r].status = 500,
                                      ![r].detail = "StaleDataError"]
           ELSE LET cur == CHOOSE s \in rows : TRUE
                    new == Updated(cur, update_data, ch)
                    after == (sources \ {cur}) \cup {new}
                IN  IF SourcesAccepted(after)
                    THEN /\ sources' = after
                         /\ req' = [q EXCEPT ![r].pc = "us_refresh",
                                               ![r].wrote = TRUE]
                    ELSE /\ sources' = sources
                         /\ req' = [q EXCEPT ![r].pc = "done", ![r].status = 500,
                                               ![r].detail = "IntegrityError"]
    /\ UNCHANGED <<users, articles, tokens, started>>

update_source_refresh(r) == refresh_source(r, "us_refresh", 200)

delete_source(r) == Arrive(r, "delete_source", "auth")

delete_source_load(r) == load_source(r, "ds_load", "ds_delete")

\* Source.articles, cascade="all, delete-orphan": the articles the session
\* deletes with a source are those it loads through the relationship.
CascadeArticles(A, source) == {a.id : a \in {x \in A : x.source_id = source.id}}

\* await db.delete(source_to_delete): marks the source deleted and loads
\* Source.articles to cascade the delete to them.
delete_source_delete(r) ==
    /\ req[r].pc = "ds_delete"
    /\ req' = [req EXCEPT ![r].pc = "ds_commit",
                            ![r].kids = CascadeArticles(articles, req[r].src)]
    /\ UNCHANGED <<users, sources, articles, tokens, started>>

\* commit(): DELETE FROM articles WHERE id = :id for each loaded article,
\* then DELETE FROM sources WHERE id = :id, in one transaction.  When a
\* DELETE matches no row the mapper (confirm_deleted_rows) warns or raises
\* StaleDataError, depending on the SQLAlchemy release.
delete_source_commit(r) ==
    /\ req[r].pc = "ds_commit"
    /\ LET sid == req[r].src.id
           stale == (~\E s \in sources : s.id = sid)
                    \/ (\E k \in req[r].kids : ~\E a \in articles : a.id = k)
           flushed ==
               /\ sources' = {s \in sources : s.id # sid}
               /\ articles' = {a \in articles : a.id \notin req[r].kids}
               /\ req' = [Finish(r, 204, "") EXCEPT ![r].wrote = TRUE]
           raised ==
               /\ UNCHANGED <<sources, articles>>
               /\ req' = Finish(r, 500, "StaleDataError")
       IN  IF stale THEN flushed \/ raised ELSE flushed
    /\ UNCHANGED <<users, tokens, started>>

\* --------------------------------------------------------- articles router
create_article(r) ==
    /\ Cardinality(articles) < MaxId
    /\ Arrive(r, "create_article", "auth")

SourceExists_Unchecked(S, source_id) == TRUE

\* Whether create_article finds the source its body names.
SourceExists(S, source_id) == \E s \in S : s.id = source_id

create_article_check(r) ==
    /\ req[r].pc = "ca_check"
    /\ \E i \in ArgIds :
        LET q == [req EXCEPT ![r].arg.source_id = i]
        IN  IF ~SourceExists(sources, i)
            THEN req' = [q EXCEPT ![r].pc = "done", ![r].status = 404,
                                  ![r].detail = "source not found"]
            ELSE req' = [q EXCEPT ![r].pc = "ca_commit"]
    /\ UNCHANGED <<users, sources, articles, tokens, started>>

\* db.add(new_article); commit(): the INSERT meets no constraint (the
\* foreign keys are not enforced).
create_article_commit(r) ==
    /\ req[r].pc = "ca_commit"
    /\ \E t \in Titles :
       LET new_article == [id |-> NextId(articles), title |-> t,
                           source_id |-> req[r].arg.source_id,
                           author_id |-> req[r].user.id]
       IN  /\ articles' = articles \cup {new_article}
           /\ req' = [req EXCEPT ![r].pc = "ca_refresh", ![r].wrote = TRUE,
                                   ![r].art = new_article]
    /\ UNCHANGED <<users, sources, tokens, started>>

refresh_article(r, pc, st) ==
    /\ req[r].pc = pc
    /\ LET rows == {a \in articles : a.id = req[r].art.id}
       IN  IF rows = {}
           THEN req' = Finish(r, 500, "InvalidRequestError")
           ELSE req' = Finish(r, st, "")
    /\ UNCHANGED <<users, sources, articles, tokens, started>>

create_article_refresh(r) == refresh_article(r, "ca_refresh", 201)

load_article(r, pc, next) ==
    /\ req[r].pc = pc
    /\ \E i \in ArgIds :
       LET rows == {a \in articles : a.id = i}
           q == [req EXCEPT ![r].arg.id = i]
       IN  IF rows = {}
           THEN req' = [q EXCEPT ![r].pc = "done", ![r].status = 404,
                                 ![r].detail = "article not found"]
           ELSE LET article == CHOOSE a \in rows : TRUE
                IN  IF ~OwnerOrAdmin(req[r].user, article.author_id)
                    THEN req' = [q EXCEPT ![r].pc = "done", ![r].status = 403,
                                          ![r].detail = "only admin or author",
                                          ![r].art = article]
                    ELSE req' = [q EXCEPT ![r].art = article, ![r].pc = next]
    /\ UNCHANGED <<users, sources, articles, tokens, started>>

update_article(r) == Arrive(r, "update_article", "auth")

update_article_load(r) == load_article(r, "ua_load", "ua_commit")

\* ArticleUpdate validation: title is the field the schema declares that a
\* stored column of the model takes (summary, content and author_name are
\* not modelled); any other field of the body is dropped.
ArticleUpdate(body) == [k \in {"title"} |-> body[k]]

\* setattr(article, key, value) for the fields the body sets.
ArticleChanges(update_data, article) ==
    {k \in model_dump(update_data) : update_data[k] # article[k]}

\* commit() after the setattr loop: UPDATE articles SET <changed> WHERE id =
\* :id; no row matched raises StaleDataError; without a changed column
\* nothing is written.
update_article_commit(r) ==
    /\ req[r].pc = "ua_commit"
    /\ \E t \in Titles \cup {Unset}, au \in ArgIds \cup {NoId},
          sid \in ArgIds \cup {NoId} :
       LET update_data == ArticleUpdate([title |-> t, author_id |-> au,
                                         source_id |-> sid])
           q == [req EXCEPT ![r].arg.title = t]
           ch == ArticleChanges(update_data, req[r].art)
           rows == {a \in articles : a.id = req[r].art.id}
       IN  IF ch = {}
           THEN /\ articles' = articles
                /\ req' = [q EXCEPT ![r].pc = "ua_refresh"]
           ELSE IF rows = {}
           THEN /\ articles' = articles
                /\ req' = [q EXCEPT ![r].pc = "done", ![r].status = 500,
                                      ![r].detail = "StaleDataError"]
           ELSE LET cur == CHOOSE a \in rows : TRUE
                IN  /\ articles' = (articles \ {cur})
                                     \cup {Updated(cur, update_data, ch)}
                    /\ req' = [q EXCEPT ![r].pc = "ua_refresh", ![r].wrote = TRUE]
    /\ UNCHANGED <<users, sources, tokens, started>>

update_article_refresh(r) == refresh_article(r, "ua_refresh", 200)

delete_article(r) == Arrive(r, "delete_article", "auth")

delete_article_load(r) == load_article(r, "da_load", "da_commit")

\* execute(delete(Article).where(Article.id == article_id)); commit(): a
\* Core DELETE, which matches whatever rows are there, none included.
delete_article_commit(r) ==
    /\ req[r].pc = "da_commit"
    /\ articles' = {a \in articles : a.id # req[r].arg.id}
    /\ req' = [Finish(r, 204, "") EXCEPT ![r].wrote = TRUE]
    /\ UNCHANGED <<users, sources, tokens, started>>

\* The response is sent and the request's session is closed.
Reply(r) ==
    /\ req[r].pc = "done"
    /\ req' = [req EXCEPT ![r] = Idle]
    /\ UNCHANGED <<users, sources, articles, tokens, started>>

Next ==
    \E r \in Reqs :
        \/ register_user(r)
        \/ register_email_exists(r)
        \/ register_username_exists(r)
        \/ register_commit(r)
        \/ login(r)
        \/ login_for_access_token(r)
        \/ read_users_me(r)
        \/ Authenticate(r)
        \/ create_source(r)
        \/ create_source_check(r)
        \/ create_source_commit(r)
        \/ create_source_refresh(r)
        \/ update_source(r)
        \/ update_source_load(r)
        \/ update_source_commit(r)
        \/ update_source_refresh(r)
        \/ delete_source(r)
        \/ delete_source_load(r)
        \/ delete_source_delete(r)
        \/ delete_source_commit(r)
        \/ create_article(r)
        \/ create_article_check(r)
        \/ create_article_commit(r)
        \/ create_article_refresh(r)
        \/ update_article(r)
        \/ update_article_load(r)
        \/ update_article_commit(r)
        \/ update_article_refresh(r)
        \/ delete_article(r)
        \/ delete_article_load(r)
        \/ delete_article_commit(r)
        \/ Reply(r)

Spec == Init /\ [][Next]_vars

\* ======================================================================
\* Properties
\* ======================================================================

\* The resource an update or delete request loaded, and the rule the claim
\* states for it.
Loaded(r) == IF req[r].op \in SourceGated THEN req[r].src ELSE req[r].art
MayMutate(r) ==
    req[r].user.role = "admin" \/ req[r].user.id = Loaded(r).author_id

\* C1: an update or delete of an existing source or article by a resolved
\* principal goes on to its mutation exactly when the principal's role is
\* "admin" or its id is the resource's author_id, and ends Forbidden (403)
\* exactly otherwise.
C1_OwnerOrAdminGate ==
    \A r \in Reqs :
        (req[r].op \in SourceGated \cup ArticleGated /\ Loaded(r).id # NoId)
        => /\ (req[r].status = 403) <=> ~MayMutate(r)
           /\ MayMutate(r) <=> (req[r].pc \notin {"done"} \/ req[r].status \in {200, 204, 500})

\* C1 witness: a user who is neither admin nor author was refused.
C1_Witness ==
    \E r \in Reqs :
        /\ req[r].op \in SourceGated \cup ArticleGated
        /\ req[r].status = 403
        /\ req[r].user.role = "user"
        /\ Loaded(r).id # NoId
        /\ Loaded(r).author_id # req[r].user.id

\* C2: the step in which a create, update or delete request is answered
\* Unauthorized (401) or Forbidden (403) leaves users, sources and articles
\* as they were, and the request has committed nothing before it.
C2_NoMutationOnAuthFailure ==
    [][\A r \in Reqs :
          (req[r].op \in Mutating /\ req[r].status = 0 /\ req'[r].status \in {401, 403})
          => (db' = db /\ ~req[r].wrote /\ ~req'[r].wrote)]_vars

\* C2 witness: an update of a stored source was answered Forbidden.
C2_Witness ==
    \E r \in Reqs :
        /\ req[r].op = "update_source" /\ req[r].status = 403
        /\ \E s \in sources : s.id = req[r].arg.id

\* A request past its ownership gate whose resource another request has
\* deleted in the meantime.
LostRace(r) ==
    \/ req[r].pc \in {"us_commit", "ds_commit"}
         /\ ~\E s \in sources : s.id = req[r].src.id
    \/ req[r].pc \in {"ua_commit", "da_commit"}
         /\ ~\E a \in articles : a.id = req[r].art.id

\* C3: an update or delete that lost the race with a concurrent delete of
\* the same resource ends with NotFound (404), not with an unhandled
\* storage error and not with a reported success.
C3_LoserGetsNotFound ==
    [][\A r \in Reqs :
          (LostRace(r) /\ req'[r].pc = "done") => req'[r].status = 404]_vars

\* C4: when delete_source reports success, no article with that source_id
\* is left in the state its commit produces.
C4_CascadeLeavesNoArticle ==
    [][\A r \in Reqs :
          (req[r].pc = "ds_commit" /\ req'[r].status = 204)
          => ~\E a \in articles' : a.source_id = req[r].src.id]_vars

\* C5: a create_article whose source_id names no stored source ends with
\* NotFound (404) at its existence check and the articles are unchanged.
C5_CreateArticleMissingSource ==
    [][\A r \in Reqs :
          (req[r].pc = "ca_check" /\ req'[r] # req[r]
             /\ ~\E s \in sources : s.id = req'[r].arg.source_id)
          => (req'[r].pc = "done" /\ req'[r].status = 404 /\ ~req'[r].wrote
              /\ articles' = articles)]_vars

\* C5 witness: a create_article was answered NotFound.
C5_Witness ==
    \E r \in Reqs :
        /\ req[r].op = "create_article" /\ req[r].status = 404
        /\ ~\E s \in sources : s.id = req[r].arg.source_id

\* C6: a register_user whose username or email is already stored when its
\* insert runs (the existence checks of two registrations may both have
\* passed) ends with the Conflict error (422) and adds no row.
C6_DuplicateIsConflict ==
    [][\A r \in Reqs :
          (req[r].pc = "reg_commit" /\ req'[r].pc = "done"
             /\ \E u \in users : u.email = req[r].arg.email
                                   \/ u.username = req[r].arg.username)
          => (req'[r].status = 422 /\ users' = users)]_vars

\* C7: no two stored sources share a url, and a create_source whose
\* existence check finds its url stored ends with the Conflict error (422)
\* without inserting.
C7_UrlUnique ==
    /\ [](\A a, b \in sources : a.url = b.url => a = b)
    /\ [][\A r \in Reqs :
            (req[r].pc = "cs_check" /\ req'[r] # req[r]
               /\ \E s \in sources : s.url = req'[r].arg.url)
            => (req'[r].status = 422 /\ ~req'[r].wrote /\ sources' = sources)]_vars

\* C7 witness: with two sources stored, an update_source that set the url of
\* one to the url of the other was turned down by the constraint.
C7_Witness ==
    \E r \in Reqs :
        /\ req[r].op = "update_source" /\ req[r].detail = "IntegrityError"
        /\ \E a, b \in sources : a.id # b.id /\ b.url = req[r].arg.url
                                   /\ a.id = req[r].src.id

StoredRole(id) == (CHOOSE u \in users : u.id = id).role

\* C8: the principal a signed token resolves to is the stored user of the
\* token's user_id with the role stored for it now, whatever role the token
\* carries, and require_role and the ownership gate decide on that role.
C8_RoleFromStorage ==
    \A r \in Reqs :
        (req[r].cred.kind = "signed" /\ req[r].user.id # NoId)
        => /\ req[r].user.id = req[r].cred.user_id
           /\ \E u \in users : u.id = req[r].user.id
           /\ req[r].user.role = StoredRole(req[r].user.id)
           /\ (require_role("admin", req[r].user) = 200)
                 <=> (StoredRole(req[r].user.id) = "admin")
           /\ (req[r].op \in SourceGated \cup ArticleGated /\ Loaded(r).id # NoId)
                 => ((req[r].status = 403)
                       <=> ~(StoredRole(req[r].user.id) = "admin"
                             \/ Loaded(r).author_id = req[r].user.id))

\* C8 witness: a token carrying role "admin" resolved to a user stored with
\* role "user", and the request was refused as that user.
C8_Witness ==
    \E r \in Reqs :
        /\ req[r].cred.kind = "signed" /\ req[r].cred.role = "admin"
        /\ req[r].user.id # NoId /\ StoredRole(req[r].user.id) = "user"
        /\ req[r].status = 403

\* A request whose identity could not be resolved.
IdentityFailed(r) ==
    req[r].pc = "done" /\ req[r].cred.kind # "none" /\ req[r].user.id = NoId

\* C9: every request whose identity resolution failed, whatever the reason,
\* got the same status and the same detail.
C9_SameUnauthorized ==
    \A r, q \in Reqs :
        (IdentityFailed(r) /\ IdentityFailed(q))
        => (req[r].status = req[q].status /\ req[r].detail = req[q].detail)

\* C10: no step removes a user or changes a stored user; a user a step adds
\* has role "user"; so the users with role "admin" stay those of startup.
C10_RolesNeverChange ==
    [][/\ users \subseteq users'
       /\ \A u \in users' \ users : u.role = "user"
       /\ {u \in users' : u.role = "admin"} = {u \in users : u.role = "admin"}]_vars

\* C10 witness: a user was registered and a source was created and removed.
C10_Witness ==
    /\ \E u \in users : u.role = "user"
    /\ \E r \in Reqs : req[r].op = "delete_source" /\ req[r].status = 204

\* C11: a row a step adds to sources or articles was added by a create_source
\* or create_article commit of that step and has the id of the request's
\* principal as author_id (an article also the source_id the request named);
\* and no step changes the author_id of a stored source or article, nor the
\* source_id of a stored article, whatever fields an update supplies.
C11_AuthorIsCreator ==
    [][/\ \A t \in sources' :
            IF \E s \in sources : s.id = t.id
            THEN \A s \in sources : s.id = t.id => t.author_id = s.author_id
            ELSE \E r \in Reqs :
                    /\ req[r].pc = "cs_commit" /\ req'[r].wrote
                    /\ req[r].user.id # NoId
                    /\ t.author_id = req[r].user.id
       /\ \A b \in articles' :
            IF \E a \in articles : a.id = b.id
            THEN \A a \in articles :
                    a.id = b.id => /\ b.author_id = a.author_id
                                   /\ b.source_id = a.source_id
            ELSE \E r \in Reqs :
                    /\ req[r].pc = "ca_commit" /\ req'[r].wrote
                    /\ req[r].user.id # NoId
                    /\ b.author_id = req[r].user.id
                    /\ b.source_id = req[r].arg.source_id]_vars

\* C11 witness: an admin who is not the author changed the url of a source,
\* and the row is stored with the author_id of its creator.
C11_Witness ==
    \E r \in Reqs :
        /\ req[r].op = "update_source" /\ req[r].status = 200 /\ req[r].wrote
        /\ req[r].user.role = "admin"
        /\ req[r].user.id # req[r].src.author_id
        /\ \E s \in sources : /\ s.id = req[r].src.id
                              /\ s.author_id = req[r].src.author_id
                              /\ s.url # req[r].src.url

\* C12: every stored article's source_id is the id of a stored source.
C12_ArticlesReferenceSources ==
    \A a \in articles : \E s \in sources : s.id = a.source_id
====
